---- MODULE Spec2Model ----
(***************************************************************************)
(* Model of the tibet-audit scanning engine (src/tibet_audit/scanner.py):  *)
(* the TIBETAudit constructor, TIBETAudit.scan with its category filter    *)
(* and per-check exception handling, _calculate_score and the status       *)
(* counts of ScanResult.                                                   *)
(*                                                                         *)
(* Conventions.                                                            *)
(*  - An Optional value is None (the empty tuple) or Some(v) (a 1-tuple).  *)
(*  - Text that the code builds or inspects (exception text, result        *)
(*    messages) is a sequence of characters.                               *)
(*  - _calculate_score accumulates score_impact * 0.5 in a float; the      *)
(*    model keeps the accumulator in half points (an integer), which       *)
(*    represents every value the float takes exactly.                      *)
(***************************************************************************)
EXTENDS Integers, Sequences, FiniteSets, TLC

\* ------------------------------------------------------------------ bounds
\* longest explicit check list handed to the constructor
MaxChecks == 3
\* number of scans performed on one engine
MaxScans == 2
\* longest result list handed directly to _calculate_score
MaxLen == 4
\* longest result list handed directly to get_fixable_issues
MaxFixLen == 3
\* most *.py files a scanned tree is followed through
MaxFiles == 21

\* ------------------------------------------------------- Optional values
None == <<>>
Some(v) == <<v>>

\* --------------------------------------------------------------- enums
Status == {"PASSED", "WARNING", "FAILED", "SKIPPED"}
Severity == {"info", "low", "medium", "high", "critical"}

\* ------------------------------------------------------------------ text
ErrBoom == <<"b", "o", "o", "m">>
ErrTexts == {ErrBoom, <<"x">>}
MsgOk == <<"o", "k">>
FailedToRunPrefix ==
  <<"C","h","e","c","k"," ","f","a","i","l","e","d"," ","t","o"," ","r","u","n",":"," ">>

\* txt occurs in msg as a contiguous run of characters
Contains(msg, txt) ==
  \E k \in 0..(Len(msg) - Len(txt)) : SubSeq(msg, k + 1, k + Len(txt)) = txt

\* ---------------------------------------------------------------- checks
\* The checks a registry is built from: two categories, registered
\* severities that differ, ids and names that differ.
CheckG1 == [check_id |-> "GDPR-001", name |-> "Privacy Policy",
            category |-> "gdpr", severity |-> "high"]
CheckG2 == [check_id |-> "GDPR-002", name |-> "Data Retention",
            category |-> "gdpr", severity |-> "medium"]
CheckA1 == [check_id |-> "AI-001", name |-> "AI Risk Class",
            category |-> "ai_act", severity |-> "critical"]
CheckUniverse == {CheckG1, CheckG2, CheckA1}

\* checks/__init__.py: the module-level list of all known checks, group by
\* group (GDPR first, then the AI Act, ...).
ALL_CHECKS == <<CheckG1, CheckG2, CheckA1>>

\* sequences of pairwise different elements of S, of length at most n
InjSeqs(S, n) ==
  UNION { { s \in [1..k -> S] : \A a, b \in 1..k : a # b => s[a] # s[b] }
          : k \in 0..n }

\* what a caller may hand to TIBETAudit(checks=...)
ChecksArgs == {None} \cup { Some(l) : l \in InjSeqs(CheckUniverse, MaxChecks) }

\* self.checks = checks or ALL_CHECKS  (None and the empty list are falsy)
InitChecks(arg) ==
  IF arg = None \/ arg[1] = <<>> THEN ALL_CHECKS ELSE arg[1]

\* ------------------------------------------------------------ scan inputs
BadPath == "nul\\0byte"
Paths == {".", BadPath}
\* Path(path).resolve(): an absolute path, or an error for a path the OS
\* rejects
ResolveRaises(path) == path = BadPath
Resolve(path) == IF path = "." THEN "/cwd" ELSE path

CategoriesArgs ==
  {None, Some(<<>>), Some(<<"gdpr">>), Some(<<"ai_act">>),
   Some(<<"gdpr", "ai_act">>), Some(<<"nis2">>)}

\* "categories and ..." : None and the empty list are falsy
Truthy(opt) == opt # None /\ opt[1] # <<>>
InList(x, l) == \E k \in 1..Len(l) : l[k] = x

\* line 73 negated: the loop body runs check unless
\* "categories and check.category not in categories"
Eligible(check, cats) == ~(Truthy(cats) /\ ~InList(check.category, cats[1]))

\* what "import tibet_vault" does in the environment of the scan
ImportOutcomes == {"ok", "ImportError", "OtherError"}
\* _check_tibet_available: only ImportError is caught
ProbeRaises(imp) == imp = "OtherError"
_check_tibet_available(imp) == imp = "ok"

\* ------------------------------------------------------------ CheckResult
FixCmd == [command |-> "mkdir -p logs"]

MkResult(check, st, sev, msg, fix, impact) ==
  [check_id |-> check.check_id, name |-> check.name, status |-> st,
   severity |-> sev, message |-> msg, fix_action |-> fix,
   score_impact |-> impact]

\* What check.run(context) may do.  A check is an opaque collaborator: it
\* returns a CheckResult of any status (its severity may override the
\* registered one), or raises.
RunOutcomes(check) ==
  { [kind |-> "return", result |-> r] : r \in
      { MkResult(check, "PASSED", check.severity, MsgOk, None, 0),
        MkResult(check, "WARNING", "low", MsgOk, None, 5),
        MkResult(check, "WARNING", check.severity, MsgOk, Some(FixCmd), 10),
        MkResult(check, "FAILED", check.severity, MsgOk, None, 20),
        MkResult(check, "SKIPPED", check.severity, MsgOk, None, 10) } }
  \cup { [kind |-> "Exception", text |-> t] : t \in ErrTexts }
  \cup { [kind |-> "BaseException", text |-> ErrBoom] }

NoOutcome == [kind |-> "none"]

\* faulty variant of SkippedResult: check_id is filled from check.name
SkippedResultWrongId(check, e) ==
  [check_id |-> check.name, name |-> check.name, status |-> "SKIPPED",
   severity |-> check.severity, message |-> FailedToRunPrefix \o e.text,
   fix_action |-> None, score_impact |-> 0]

\* faulty variant of SkippedResult: the message leaves out the error text
SkippedResultNoText(check, e) ==
  MkResult(check, "SKIPPED", check.severity, FailedToRunPrefix, None, 0)

\* faulty variant of SkippedResult: the check that raised is reported as a
\* warning
SkippedResultAsWarning(check, e) ==
  MkResult(check, "WARNING", check.severity, FailedToRunPrefix \o e.text, None, 10)

\* lines 81-88: the result synthesized for a check whose run raised e
SkippedResult(check, e) ==
  MkResult(check, "SKIPPED", check.severity, FailedToRunPrefix \o e.text, None, 0)

\* -------------------------------------------------------- _calculate_score
\* faulty variant of AddDeduction: a SKIPPED result is charged like a FAILED
\* one
AddDeductionSkippedToo(acc2, r) ==
  IF r.status \in {"FAILED", "SKIPPED"} THEN acc2 + 2 * r.score_impact
  ELSE IF r.status = "WARNING" THEN acc2 + r.score_impact
  ELSE acc2

\* faulty variant of AddDeduction: a critical finding is charged twice
AddDeductionSeverityWeighted(acc2, r) ==
  LET w == IF r.severity = "critical" THEN 2 ELSE 1
  IN  IF r.status = "FAILED" THEN acc2 + 2 * w * r.score_impact
      ELSE IF r.status = "WARNING" THEN acc2 + w * r.score_impact
      ELSE acc2

\* faulty variant of AddDeduction: the half penalty is an integer division,
\* score_impact // 2
AddDeductionTruncHalf(acc2, r) ==
  IF r.status = "FAILED" THEN acc2 + 2 * r.score_impact
  ELSE IF r.status = "WARNING" THEN acc2 + 2 * (r.score_impact \div 2)
  ELSE acc2

\* faulty variant of AddDeduction: the running total is truncated to whole
\* points after every WARNING
AddDeductionTruncEach(acc2, r) ==
  IF r.status = "FAILED" THEN acc2 + 2 * r.score_impact
  ELSE IF r.status = "WARNING" THEN 2 * ((acc2 + r.score_impact) \div 2)
  ELSE acc2

\* lines 120-123, one iteration of the loop; acc2 and the value are the
\* float "deductions" in half points
AddDeduction(acc2, r) ==
  IF r.status = "FAILED" THEN acc2 + 2 * r.score_impact
  ELSE IF r.status = "WARNING" THEN acc2 + r.score_impact
  ELSE acc2

\* lines 117-123: deductions after the first n results, in half points
RECURSIVE Deductions2(_, _)
Deductions2(rs, n) ==
  IF n = 0 THEN 0 ELSE AddDeduction(Deductions2(rs, n - 1), rs[n])

\* int(x) for x given in half points: truncation toward zero
IntOfHalves(x2) == IF x2 >= 0 THEN x2 \div 2 ELSE -((-x2) \div 2)

Max(a, b) == IF a >= b THEN a ELSE b

\* faulty variant of ScoreOf: the score is not floored at 0
ScoreOfNoClamp(d2) == IntOfHalves(2 * 100 - d2)

\* line 125: score = max(0, int(max_score - deductions)), max_score = 100
ScoreOf(d2) == Max(0, IntOfHalves(2 * 100 - d2))

\* faulty variant of GradeOf: the lower bounds are exclusive
GradeOfStrict(score) ==
  IF score > 90 THEN "A"
  ELSE IF score > 80 THEN "B"
  ELSE IF score > 70 THEN "C"
  ELSE IF score > 60 THEN "D"
  ELSE "F"

\* lines 128-137
GradeOf(score) ==
  IF score >= 90 THEN "A"
  ELSE IF score >= 80 THEN "B"
  ELSE IF score >= 70 THEN "C"
  ELSE IF score >= 60 THEN "D"
  ELSE "F"

\* lines 114-139: returns (score, grade)
_calculate_score(rs) ==
  LET score == ScoreOf(Deductions2(rs, Len(rs)))
  IN  <<score, GradeOf(score)>>

\* lines 94-97: sum(1 for r in results if r.status == st), over the first n
\* faulty variant of CountsAs: a SKIPPED result is also counted as PASSED
CountsAsSkippedPassed(r, st) ==
  IF r.status = st \/ (st = "PASSED" /\ r.status = "SKIPPED") THEN 1 ELSE 0

\* the term "1 for r in results if r.status == st" contributes for r
CountsAs(r, st) == IF r.status = st THEN 1 ELSE 0

RECURSIVE CountStatus(_, _, _)
CountStatus(rs, st, n) ==
  IF n = 0 THEN 0 ELSE CountStatus(rs, st, n - 1) + CountsAs(rs[n], st)

\* lines 101-112 (timestamp and duration_seconds are wall-clock values and
\* are left out)
ScanResult(scan_path, rs) ==
  LET sg == _calculate_score(rs)
  IN  [scan_path |-> scan_path, score |-> sg[1], grade |-> sg[2],
       passed |-> CountStatus(rs, "PASSED", Len(rs)),
       warnings |-> CountStatus(rs, "WARNING", Len(rs)),
       failed |-> CountStatus(rs, "FAILED", Len(rs)),
       skipped |-> CountStatus(rs, "SKIPPED", Len(rs)),
       results |-> rs]

\* --------------------------------------- checks/penguin_act.py: the checks
\* What the penguin checks can tell of a scanned tree.  scan_path.glob(
\* "**/*.py") lists the *.py files in some order; x_at is the position in
\* that list of the first file that can be read and holds one of the terms
\* x, 0 if there is none.  retention: some file matches retention*.*, ttl*.*
\* or expir*.*.  walk_error: walking the tree raises an OSError.
FirstAt(limit) == {0, 1, limit, limit + 1, MaxFiles}

Trees ==
  [penguin_at : FirstAt(20), resilience_at : FirstAt(20),
   logging_at : FirstAt(15), retention : BOOLEAN, walk_error : BOOLEAN]

NoFiles ==
  [penguin_at |-> 0, resilience_at |-> 0, logging_at |-> 0,
   retention |-> FALSE, walk_error |-> FALSE]

\* for sf in source_files[:limit]: ... if any(term in content ...): found
FoundWithin(at, limit) == at # 0 /\ at <= limit

\* penguin_act.py lines 14-22, 69-77, 111-119, 178-186, 200-208
PenguinDataSovereigntyCheck ==
  [check_id |-> "PENG-001", name |-> "Penguin Data Sovereignty",
   category |-> "penguin", severity |-> "critical"]
IceDataRetentionCheck ==
  [check_id |-> "PENG-002", name |-> "Ice Age Data Retention",
   category |-> "penguin", severity |-> "medium"]
BlizzardResilienceCheck ==
  [check_id |-> "PENG-003", name |-> "Blizzard Resilience",
   category |-> "penguin", severity |-> "high"]
KrillConsentCheck ==
  [check_id |-> "PENG-004", name |-> "Krill Consent Framework",
   category |-> "penguin", severity |-> "low"]
AuroraAustralisLoggingCheck ==
  [check_id |-> "PENG-005", name |-> "Aurora Australis Logging",
   category |-> "penguin", severity |-> "medium"]

\* penguin_act.py lines 261-267
PENGUIN_CHECKS ==
  <<PenguinDataSovereigntyCheck, IceDataRetentionCheck,
    BlizzardResilienceCheck, KrillConsentCheck, AuroraAustralisLoggingCheck>>

\* checks/__init__.py lines 16-26: ALL_CHECKS with its last group
ALL_CHECKS_WithPenguin == ALL_CHECKS \o PENGUIN_CHECKS

\* messages of the penguin results, each as one piece of text
MsgPenguin(txt) == <<txt>>

Returns(r) == [kind |-> "return", result |-> r]
WalkRaises == [kind |-> "Exception", text |-> ErrBoom]

\* penguin_act.py lines 168-173; the command ends in a shell comment that
\* is left out here
InstallTibet == [command |-> "pip install tibet-vault"]

\* penguin_act.py lines 24-66
PenguinDataSovereigntyRun(check, ctx, tree) ==
  IF tree.walk_error THEN WalkRaises
  ELSE IF FoundWithin(tree.penguin_at, 20)
  THEN Returns(MkResult(check, "WARNING", check.severity,
                        MsgPenguin("Penguin data detected"), None, 10))
  ELSE Returns(MkResult(check, "PASSED", check.severity,
                        MsgPenguin("No penguin data detected"), None, 0))

\* penguin_act.py lines 79-108
IceDataRetentionRun(check, ctx, tree) ==
  IF tree.walk_error THEN WalkRaises
  ELSE IF tree.retention
  THEN Returns(MkResult(check, "PASSED", check.severity,
                        MsgPenguin("Data retention policy found"), None, 0))
  ELSE Returns(MkResult(check, "WARNING", "low",
                        MsgPenguin("No retention policy"), None, 5))

\* faulty variant of BlizzardResilienceRun: tibet_available is not looked at
BlizzardResilienceRunIgnoresTibet(check, ctx, tree) ==
  IF tree.walk_error THEN WalkRaises
  ELSE IF FoundWithin(tree.resilience_at, 20)
  THEN Returns(MkResult(check, "PASSED", check.severity,
                        MsgPenguin("Resilience patterns detected"), None, 0))
  ELSE Returns(MkResult(check, "WARNING", "medium",
                        MsgPenguin("Limited resilience detected"),
                        Some(InstallTibet), 10))

\* penguin_act.py lines 121-175
BlizzardResilienceRun(check, ctx, tree) ==
  IF ctx.tibet_available
  THEN Returns(MkResult(check, "PASSED", check.severity,
                        MsgPenguin("TIBET detected"), None, 0))
  ELSE IF tree.walk_error THEN WalkRaises
  ELSE IF FoundWithin(tree.resilience_at, 20)
  THEN Returns(MkResult(check, "PASSED", check.severity,
                        MsgPenguin("Resilience patterns detected"), None, 0))
  ELSE Returns(MkResult(check, "WARNING", "medium",
                        MsgPenguin("Limited resilience detected"),
                        Some(InstallTibet), 10))

\* penguin_act.py lines 188-197
KrillConsentRun(check, ctx, tree) ==
  Returns(MkResult(check, "PASSED", check.severity,
                   MsgPenguin("Krill consent assumed"), None, 0))

\* penguin_act.py lines 210-257
AuroraAustralisLoggingRun(check, ctx, tree) ==
  IF ctx.tibet_available
  THEN Returns(MkResult(check, "PASSED", check.severity,
                        MsgPenguin("TIBET's cryptographic logging"), None, 0))
  ELSE IF tree.walk_error THEN WalkRaises
  ELSE IF FoundWithin(tree.logging_at, 15)
  THEN Returns(MkResult(check, "PASSED", check.severity,
                        MsgPenguin("Logging detected"), None, 0))
  ELSE Returns(MkResult(check, "WARNING", "low",
                        MsgPenguin("Basic logging not found"), None, 5))

\* check.run(context) for a penguin check
PenguinRun(check, ctx, tree) ==
  CASE check = PenguinDataSovereigntyCheck ->
         PenguinDataSovereigntyRun(check, ctx, tree)
    [] check = IceDataRetentionCheck -> IceDataRetentionRun(check, ctx, tree)
    [] check = BlizzardResilienceCheck -> BlizzardResilienceRun(check, ctx, tree)
    [] check = KrillConsentCheck -> KrillConsentRun(check, ctx, tree)
    [] check = AuroraAustralisLoggingCheck ->
         AuroraAustralisLoggingRun(check, ctx, tree)

\* ------------------------------------------------------------------ state
VARIABLES
  checks,      \* self.checks, the registry of the engine
  pc,          \* position of the caller / of scan
  nscans,      \* scans started on this engine
  categories,  \* the categories argument of the scan in progress
  context,     \* the context dict of the scan in progress
  i,           \* index in self.checks of the for loop
  results,     \* the local list results
  pending,     \* what the check.run call in progress did
  calls,       \* log of the check.run invocations of the scan in progress
  ret,         \* the ScanResult returned to the caller, if any
  error,       \* where the error that left scan came from
  score_out,   \* the (score, grade) returned by a direct _calculate_score call
  checks_arg,  \* the checks argument the engine was constructed with
  path,        \* the path argument of the scan in progress
  fix_out,     \* the list returned by a direct get_fixable_issues call
  cli,         \* the command line command in progress
  prev,        \* inputs and ScanResult of the previous scan of a re-scan
  behav,       \* what each registered check does when it is deterministic
  fs           \* what the checks find in the scanned tree

vars == <<checks, pc, nscans, categories, context, i, results, pending,
          calls, ret, error, score_out, checks_arg, path, fix_out, cli,
          prev, behav, fs>>

\* the state that TIBETAudit.scan neither reads nor writes
outside == <<checks_arg, fix_out, cli, prev, behav, fs>>

NoCli == [cmd |-> "none"]

NoContext == [scan_path |-> "", tibet_available |-> FALSE]

\* TIBETAudit(checks=arg)
Init ==
  /\ checks_arg \in ChecksArgs
  /\ checks = InitChecks(checks_arg)
  /\ pc = "idle"
  /\ nscans = 0
  /\ categories = None
  /\ context = NoContext
  /\ i = 0
  /\ results = <<>>
  /\ pending = NoOutcome
  /\ calls = <<>>
  /\ ret = None
  /\ error = "none"
  /\ score_out = None
  /\ path = ""
  /\ fix_out = None
  /\ cli = NoCli
  /\ prev = None
  /\ behav = <<>>
  /\ fs = NoFiles

\* faulty variant of ScanBegin: the results list lives on the engine and is
\* not emptied when a scan starts
ScanBeginKeepsResults ==
  /\ pc \in {"idle", "returned", "raised"}
  /\ nscans < MaxScans
  /\ \E p \in Paths, cats \in CategoriesArgs, imp \in ImportOutcomes :
       /\ ~ResolveRaises(p)
       /\ ~ProbeRaises(imp)
       /\ path' = p
       /\ categories' = cats
       /\ context' = [scan_path |-> Resolve(p),
                      tibet_available |-> _check_tibet_available(imp)]
  /\ nscans' = nscans + 1
  /\ pc' = "loop"
  /\ i' = 1
  /\ pending' = NoOutcome
  /\ calls' = <<>>
  /\ ret' = None
  /\ error' = "none"
  /\ UNCHANGED <<checks, results, score_out>>
  /\ UNCHANGED outside

\* scan(path, cats), lines 58-70, when the path resolves and the probe
\* does not raise
ScanBegin ==
  /\ pc \in {"idle", "returned", "raised"}
  /\ nscans < MaxScans
  /\ \E p \in Paths, cats \in CategoriesArgs, imp \in ImportOutcomes :
       /\ ~ResolveRaises(p)
       /\ ~ProbeRaises(imp)
       /\ path' = p
       /\ categories' = cats
       /\ context' = [scan_path |-> Resolve(p),
                      tibet_available |-> _check_tibet_available(imp)]
  /\ nscans' = nscans + 1
  /\ pc' = "loop"
  /\ i' = 1
  /\ results' = <<>>
  /\ pending' = NoOutcome
  /\ calls' = <<>>
  /\ ret' = None
  /\ error' = "none"
  /\ UNCHANGED <<checks, score_out>>
  /\ UNCHANGED outside

\* faulty variant of ScanBeginRaises: the error is swallowed and the scan goes
\* on with the unresolved path and tibet_available false
ScanBeginSwallows ==
  /\ pc \in {"idle", "returned", "raised"}
  /\ nscans < MaxScans
  /\ \E p \in Paths, cats \in CategoriesArgs, imp \in ImportOutcomes :
       /\ ResolveRaises(p) \/ ProbeRaises(imp)
       /\ path' = p
       /\ categories' = cats
       /\ context' = [scan_path |-> p, tibet_available |-> FALSE]
  /\ nscans' = nscans + 1
  /\ pc' = "loop"
  /\ i' = 1
  /\ results' = <<>>
  /\ pending' = NoOutcome
  /\ calls' = <<>>
  /\ ret' = None
  /\ error' = "none"
  /\ UNCHANGED <<checks, score_out>>
  /\ UNCHANGED outside

\* scan(path, cats), lines 58-67, when Path(path).resolve() raises (line 61)
\* or the import inside _check_tibet_available raises something that is not
\* an ImportError (line 66): the error leaves scan
ScanBeginRaises ==
  /\ pc \in {"idle", "returned", "raised"}
  /\ nscans < MaxScans
  /\ \E p \in Paths, cats \in CategoriesArgs, imp \in ImportOutcomes :
       /\ ResolveRaises(p) \/ ProbeRaises(imp)
       /\ path' = p
       /\ categories' = cats
       /\ error' = IF ResolveRaises(p) THEN "path" ELSE "probe"
  /\ nscans' = nscans + 1
  /\ pc' = "raised"
  /\ context' = NoContext
  /\ i' = 0
  /\ results' = <<>>
  /\ pending' = NoOutcome
  /\ calls' = <<>>
  /\ ret' = None
  /\ UNCHANGED <<checks, score_out>>
  /\ UNCHANGED outside

\* faulty variant of FilterSkip: the "continue" is missing, the filtered-out
\* check is run
FilterSkipRuns ==
  /\ pc = "loop"
  /\ i <= Len(checks)
  /\ ~Eligible(checks[i], categories)
  /\ \E o \in RunOutcomes(checks[i]) :
       /\ pending' = o
       /\ calls' = Append(calls, [index |-> i,
                                  check_id |-> checks[i].check_id,
                                  context |-> context,
                                  nresults |-> Len(results),
                                  outcome |-> o])
  /\ pc' = "ran"
  /\ UNCHANGED <<checks, nscans, categories, context, i, results, ret,
                 error, score_out>>
  /\ UNCHANGED <<path, outside>>

\* lines 71-74: the check at i is filtered out, continue
FilterSkip ==
  /\ pc = "loop"
  /\ i <= Len(checks)
  /\ ~Eligible(checks[i], categories)
  /\ i' = i + 1
  /\ UNCHANGED <<checks, pc, nscans, categories, context, results, pending,
                 calls, ret, error, score_out>>
  /\ UNCHANGED <<path, outside>>

\* line 77: check.run(context) is called and returns or raises
RunCheck ==
  /\ pc = "loop"
  /\ i <= Len(checks)
  /\ Eligible(checks[i], categories)
  /\ \E o \in RunOutcomes(checks[i]) :
       /\ pending' = o
       /\ calls' = Append(calls, [index |-> i,
                                  check_id |-> checks[i].check_id,
                                  context |-> context,
                                  nresults |-> Len(results),
                                  outcome |-> o])
  /\ pc' = "ran"
  /\ UNCHANGED <<checks, nscans, categories, context, i, results, ret,
                 error, score_out>>
  /\ UNCHANGED <<path, outside>>

\* faulty variant of AppendResult: the result is put at the front of the list
AppendResultFront ==
  /\ pc = "ran"
  /\ pending.kind = "return"
  /\ results' = <<pending.result>> \o results
  /\ i' = i + 1
  /\ pc' = "loop"
  /\ pending' = NoOutcome
  /\ UNCHANGED <<checks, nscans, categories, context, calls, ret, error,
                 score_out>>
  /\ UNCHANGED <<path, outside>>

\* line 78: results.append(result)
AppendResult ==
  /\ pc = "ran"
  /\ pending.kind = "return"
  /\ results' = Append(results, pending.result)
  /\ i' = i + 1
  /\ pc' = "loop"
  /\ pending' = NoOutcome
  /\ UNCHANGED <<checks, nscans, categories, context, calls, ret, error,
                 score_out>>
  /\ UNCHANGED <<path, outside>>

\* faulty variant of AppendSkipped: the handler appends the synthesized
\* result and leaves the loop
AppendSkippedAborts ==
  /\ pc = "ran"
  /\ pending.kind = "Exception"
  /\ results' = Append(results, SkippedResult(checks[i], pending))
  /\ i' = Len(checks) + 1
  /\ pc' = "loop"
  /\ pending' = NoOutcome
  /\ UNCHANGED <<checks, nscans, categories, context, calls, ret, error,
                 score_out>>
  /\ UNCHANGED <<path, outside>>

\* lines 79-88: except Exception as e: append the synthesized result
AppendSkipped ==
  /\ pc = "ran"
  /\ pending.kind = "Exception"
  /\ results' = Append(results, SkippedResult(checks[i], pending))
  /\ i' = i + 1
  /\ pc' = "loop"
  /\ pending' = NoOutcome
  /\ UNCHANGED <<checks, nscans, categories, context, calls, ret, error,
                 score_out>>
  /\ UNCHANGED <<path, outside>>

\* line 79: an exception that is not an Exception (SystemExit,
\* KeyboardInterrupt) is not caught and leaves scan
RunPropagates ==
  /\ pc = "ran"
  /\ pending.kind = "BaseException"
  /\ pc' = "raised"
  /\ error' = "check"
  /\ UNCHANGED <<checks, nscans, categories, context, i, results, pending,
                 calls, ret, score_out>>
  /\ UNCHANGED <<path, outside>>

\* lines 90-112: the loop is over; score, counts, return ScanResult
ScanReturn ==
  /\ pc = "loop"
  /\ i > Len(checks)
  /\ ret' = Some(ScanResult(context.scan_path, results))
  /\ pc' = "returned"
  /\ UNCHANGED <<checks, nscans, categories, context, i, results, pending,
                 calls, error, score_out>>
  /\ UNCHANGED <<path, outside>>

Next ==
  \/ ScanBegin
  \/ ScanBeginRaises
  \/ FilterSkip
  \/ RunCheck
  \/ AppendResult
  \/ AppendSkipped
  \/ RunPropagates
  \/ ScanReturn

Spec == Init /\ [][Next]_vars

\* ------------------------------------------- _calculate_score called alone
\* result lists handed directly to _calculate_score: every status, equal
\* impacts under different statuses, odd and even impacts, impacts above 100
ScoreImpacts == {0, 1, 5, 10, 20, 50, 150, 999}
PoolResult(st, impact) == MkResult(CheckG1, st, CheckG1.severity, MsgOk, None, impact)
ResultPool ==
  { PoolResult("FAILED", 20), PoolResult("FAILED", 150),
    PoolResult("FAILED", 10), PoolResult("FAILED", 1),
    PoolResult("WARNING", 10), PoolResult("WARNING", 5),
    PoolResult("PASSED", 50), PoolResult("SKIPPED", 999) }

SeqsUpTo(S, n) == UNION { [1..k -> S] : k \in 0..n }

ScoreInit ==
  /\ checks_arg = None
  /\ checks = ALL_CHECKS
  /\ pc = "score_call"
  /\ nscans = 0
  /\ categories = None
  /\ context = NoContext
  /\ i = 0
  /\ results \in SeqsUpTo(ResultPool, MaxLen)
  /\ pending = NoOutcome
  /\ calls = <<>>
  /\ ret = None
  /\ error = "none"
  /\ score_out = None
  /\ path = ""
  /\ fix_out = None
  /\ cli = NoCli
  /\ prev = None
  /\ behav = <<>>
  /\ fs = NoFiles

\* score, grade = self._calculate_score(results)
CalculateScore ==
  /\ pc = "score_call"
  /\ score_out' = Some(_calculate_score(results))
  /\ pc' = "score_done"
  /\ UNCHANGED <<checks, nscans, categories, context, i, results, pending,
                 calls, ret, error>>
  /\ UNCHANGED <<path, outside>>

ScoreNext == CalculateScore

ScoreSpec == ScoreInit /\ [][ScoreNext]_vars

\* ------------------------------------ scans repeated on unchanged inputs
\* What a deterministic check does on every run against an unchanged
\* filesystem: always the same one of these.
DetOutcomes(check) ==
  { [kind |-> "return", result |-> r] : r \in
      { MkResult(check, "PASSED", check.severity, MsgOk, None, 0),
        MkResult(check, "WARNING", "low", MsgOk, Some(FixCmd), 10),
        MkResult(check, "FAILED", check.severity, MsgOk, None, 20) } }
  \cup { [kind |-> "Exception", text |-> ErrBoom],
         [kind |-> "BaseException", text |-> ErrBoom] }

\* audit = TIBETAudit(checks=arg), with the behaviour of each registered check
RescanInit ==
  /\ checks_arg \in ChecksArgs
  /\ checks = InitChecks(checks_arg)
  /\ pc = "idle"
  /\ nscans = 0
  /\ categories = None
  /\ context = NoContext
  /\ i = 0
  /\ results = <<>>
  /\ pending = NoOutcome
  /\ calls = <<>>
  /\ ret = None
  /\ error = "none"
  /\ score_out = None
  /\ path = ""
  /\ fix_out = None
  /\ cli = NoCli
  /\ prev = None
  /\ behav \in { f \in [1..Len(checks) -> UNION { DetOutcomes(c) : c \in CheckUniverse }] :
                   \A k \in 1..Len(checks) : f[k] \in DetOutcomes(checks[k]) }
  /\ fs = NoFiles

\* the first scan of the engine: scan(path, cats)
FirstScan ==
  /\ pc = "idle"
  /\ ScanBegin

\* what is kept of a scan that ended, to compare the next one with
Ended == [categories |-> categories, path |-> path, context |-> context,
          pc |-> pc, error |-> error, ret |-> ret]

\* faulty variant of Rescan: the results list lives on the engine and is not
\* emptied when a scan starts
RescanKeepsResults ==
  /\ pc \in {"returned", "raised"}
  /\ nscans < MaxScans
  /\ prev' = Some(Ended)
  /\ \E cats \in CategoriesArgs : categories' = cats
  /\ nscans' = nscans + 1
  /\ pc' = "loop"
  /\ i' = 1
  /\ pending' = NoOutcome
  /\ calls' = <<>>
  /\ ret' = None
  /\ error' = "none"
  /\ UNCHANGED <<checks, results, score_out, path, context, checks_arg, fix_out,
                 cli, behav, fs>>

\* a further scan of the same engine, lines 58-70, with the same path in the
\* same environment (the path resolves as before and the probe answers as
\* before), under any category filter
Rescan ==
  /\ pc \in {"returned", "raised"}
  /\ nscans < MaxScans
  /\ prev' = Some(Ended)
  /\ \E cats \in CategoriesArgs : categories' = cats
  /\ nscans' = nscans + 1
  /\ pc' = "loop"
  /\ i' = 1
  /\ results' = <<>>
  /\ pending' = NoOutcome
  /\ calls' = <<>>
  /\ ret' = None
  /\ error' = "none"
  /\ UNCHANGED <<checks, score_out, path, context, checks_arg, fix_out, cli,
                 behav, fs>>

\* faulty variant of RunDetCheck: what a check does depends on how many
\* checks ran before it in this scan
RunDetCheckByCallOrder ==
  /\ pc = "loop"
  /\ i <= Len(checks)
  /\ Eligible(checks[i], categories)
  /\ pending' = behav[Len(calls) + 1]
  /\ calls' = Append(calls, [index |-> i,
                             check_id |-> checks[i].check_id,
                             context |-> context,
                             nresults |-> Len(results),
                             outcome |-> behav[Len(calls) + 1]])
  /\ pc' = "ran"
  /\ UNCHANGED <<checks, nscans, categories, context, i, results, ret,
                 error, score_out>>
  /\ UNCHANGED <<path, outside>>

\* line 77: check.run(context) of a deterministic check
RunDetCheck ==
  /\ pc = "loop"
  /\ i <= Len(checks)
  /\ Eligible(checks[i], categories)
  /\ pending' = behav[i]
  /\ calls' = Append(calls, [index |-> i,
                             check_id |-> checks[i].check_id,
                             context |-> context,
                             nresults |-> Len(results),
                             outcome |-> behav[i]])
  /\ pc' = "ran"
  /\ UNCHANGED <<checks, nscans, categories, context, i, results, ret,
                 error, score_out>>
  /\ UNCHANGED <<path, outside>>

RescanNext ==
  \/ FirstScan
  \/ Rescan
  \/ FilterSkip
  \/ RunDetCheck
  \/ AppendResult
  \/ AppendSkipped
  \/ RunPropagates
  \/ ScanReturn

RescanSpec == RescanInit /\ [][RescanNext]_vars

\* ------------------------------------------ get_fixable_issues called alone
\* CheckResult.can_auto_fix (checks/base.py): a fix_action is present and its
\* command is not empty
can_auto_fix(r) == r.fix_action # None /\ r.fix_action[1].command # ""

\* faulty variant of IsFixableIssue: the status is not looked at
IsFixableIssueAnyStatus(r) == can_auto_fix(r)

\* scanner.py line 151, the condition of the comprehension
IsFixableIssue(r) == can_auto_fix(r) /\ r.status # "PASSED"

\* scanner.py lines 149-151: [r for r in results if ...], over the first n
RECURSIVE FixableUpTo(_, _)
FixableUpTo(rs, n) ==
  IF n = 0 THEN <<>>
  ELSE IF IsFixableIssue(rs[n]) THEN Append(FixableUpTo(rs, n - 1), rs[n])
       ELSE FixableUpTo(rs, n - 1)

get_fixable_issues(rs) == FixableUpTo(rs, Len(rs))

\* scanner.py lines 25-28, ScanResult.fixable_count: sum(1 for r in
\* self.results if r.can_auto_fix and r.status != Status.PASSED), over the
\* first n results
RECURSIVE FixableCountUpTo(_, _)
FixableCountUpTo(rs, n) ==
  IF n = 0 THEN 0
  ELSE FixableCountUpTo(rs, n - 1)
       + (IF can_auto_fix(rs[n]) /\ rs[n].status # "PASSED" THEN 1 ELSE 0)

fixable_count(sr) == FixableCountUpTo(sr.results, Len(sr.results))

\* result lists handed directly to get_fixable_issues: every status with no
\* fix_action, with a fix_action whose command is empty, and with a command
EmptyCmd == [command |-> ""]
FixPool ==
  { MkResult(CheckG1, st, CheckG1.severity, MsgOk, fix, 10) :
      st \in Status, fix \in {None, Some(EmptyCmd), Some(FixCmd)} }

FixInit ==
  /\ checks_arg = None
  /\ checks = ALL_CHECKS
  /\ pc = "fix_call"
  /\ nscans = 0
  /\ categories = None
  /\ context = NoContext
  /\ i = 0
  /\ results \in SeqsUpTo(FixPool, MaxFixLen)
  /\ pending = NoOutcome
  /\ calls = <<>>
  /\ ret = None
  /\ error = "none"
  /\ score_out = None
  /\ path = ""
  /\ fix_out = None
  /\ cli = NoCli
  /\ prev = None
  /\ behav = <<>>
  /\ fs = NoFiles

\* fixable = audit.get_fixable_issues(results)
GetFixableIssues ==
  /\ pc = "fix_call"
  /\ fix_out' = Some(get_fixable_issues(results))
  /\ pc' = "fix_done"
  /\ UNCHANGED <<checks, nscans, categories, context, i, results, pending,
                 calls, ret, error, score_out, checks_arg, path, cli, prev,
                 behav, fs>>

FixNext == GetFixableIssues

FixSpec == FixInit /\ [][FixNext]_vars

\* ------------------------------------------- scans of the penguin checks
\* the category filters of a scan for the penguin checks
PenguinCategoriesArgs == {None, Some(<<"penguin">>)}

\* TIBETAudit(checks=PENGUIN_CHECKS), or TIBETAudit() with the whole
\* registry, over some tree
PenguinInit ==
  /\ checks_arg \in {None, Some(PENGUIN_CHECKS)}
  /\ checks = (IF checks_arg = None THEN ALL_CHECKS_WithPenguin
               ELSE InitChecks(checks_arg))
  /\ pc = "idle"
  /\ nscans = 0
  /\ categories = None
  /\ context = NoContext
  /\ i = 0
  /\ results = <<>>
  /\ pending = NoOutcome
  /\ calls = <<>>
  /\ ret = None
  /\ error = "none"
  /\ score_out = None
  /\ path = ""
  /\ fix_out = None
  /\ cli = NoCli
  /\ prev = None
  /\ behav = <<>>
  /\ fs \in Trees

\* scan(path, cats), lines 58-70, for a scan that runs the penguin checks
\* only: the registry holds nothing else or the filter is ["penguin"]
PenguinScanBegin ==
  /\ pc \in {"idle", "returned", "raised"}
  /\ nscans < MaxScans
  /\ \E p \in Paths, cats \in PenguinCategoriesArgs, imp \in ImportOutcomes :
       /\ checks = PENGUIN_CHECKS \/ cats = Some(<<"penguin">>)
       /\ ~ResolveRaises(p)
       /\ ~ProbeRaises(imp)
       /\ path' = p
       /\ categories' = cats
       /\ context' = [scan_path |-> Resolve(p),
                      tibet_available |-> _check_tibet_available(imp)]
  /\ nscans' = nscans + 1
  /\ pc' = "loop"
  /\ i' = 1
  /\ results' = <<>>
  /\ pending' = NoOutcome
  /\ calls' = <<>>
  /\ ret' = None
  /\ error' = "none"
  /\ UNCHANGED <<checks, score_out>>
  /\ UNCHANGED outside

\* line 77: check.run(context) of a penguin check
RunPenguinCheck ==
  /\ pc = "loop"
  /\ i <= Len(checks)
  /\ Eligible(checks[i], categories)
  /\ LET out == PenguinRun(checks[i], context, fs)
     IN  /\ pending' = out
         /\ calls' = Append(calls, [index |-> i,
                                    check_id |-> checks[i].check_id,
                                    context |-> context,
                                    nresults |-> Len(results),
                                    outcome |-> out])
  /\ pc' = "ran"
  /\ UNCHANGED <<checks, nscans, categories, context, i, results, ret,
                 error, score_out>>
  /\ UNCHANGED <<path, outside>>

PenguinNext ==
  \/ PenguinScanBegin
  \/ ScanBeginRaises
  \/ FilterSkip
  \/ RunPenguinCheck
  \/ AppendResult
  \/ AppendSkipped
  \/ ScanReturn

PenguinSpec == PenguinInit /\ [][PenguinNext]_vars

\* --------------------------------------------- cli.py: commands scan and fix
\* text of the --categories option, as the pieces between and including its
\* commas: "", "gdpr", "gdpr,ai_act", "gdpr,"
CatOptions ==
  {None, Some(<<>>), Some(<<"gdpr">>), Some(<<"gdpr", ",", "ai_act">>),
   Some(<<"gdpr", ",">>)}

\* str.split(","): the pieces between the commas of a text, "" where two
\* commas or an end of the text meet
RECURSIVE SplitComma(_, _)
SplitComma(txt, cur) ==
  IF txt = <<>> THEN <<cur>>
  ELSE IF Head(txt) = "," THEN <<cur>> \o SplitComma(Tail(txt), "")
       ELSE SplitComma(Tail(txt), Head(txt))

\* cli.py line 141: cat_list = categories.split(",") if categories else None
ParseCategories(opt) ==
  IF opt = None \/ opt[1] = <<>> THEN None ELSE Some(SplitComma(opt[1], ""))

\* scanner.py line 47: the parameters scan accepts by keyword
ScanParams == {"path", "categories"}

\* cli.py lines 149 and 160: the keywords of the audit.scan call of the scan
\* command
ScanCallKeywords(cry) ==
  IF cry THEN {"categories", "live_mode"} ELSE {"categories"}

\* a call with a keyword the function does not have raises TypeError
CallRaisesTypeError(kws) == ~(kws \subseteq ScanParams)

\* the command line: which command, its arguments and options, and what the
\* command has done so far
CliCommand(cmd, p, auto, wet_wipe, dry_run, cry, cat_opt, machine) ==
  [cmd |-> cmd, path |-> p, auto |-> auto, wet_wipe |-> wet_wipe,
   dry_run |-> dry_run, cry |-> cry, cat_opt |-> cat_opt,
   machine_output |-> machine,
   pos |-> "start", exc |-> "none",
   fixable |-> None, shown |-> None, prompted |-> FALSE, confirmed |-> "none",
   applied |-> None, fixed |-> 0, displayed |-> None]

CliCommands ==
  { CliCommand("fix", p, a, w, n, FALSE, None, FALSE) :
      p \in Paths, a \in BOOLEAN, w \in BOOLEAN, n \in BOOLEAN }
  \cup
  { CliCommand("scan", p, FALSE, FALSE, FALSE, c, o, m) :
      p \in Paths, c \in BOOLEAN, o \in CatOptions, m \in BOOLEAN }

\* audit = TIBETAudit() in the command (cli.py lines 144, 232)
CliInit ==
  /\ checks_arg = None
  /\ checks = InitChecks(None)
  /\ pc = "idle"
  /\ nscans = 0
  /\ categories = None
  /\ context = NoContext
  /\ i = 0
  /\ results = <<>>
  /\ pending = NoOutcome
  /\ calls = <<>>
  /\ ret = None
  /\ error = "none"
  /\ score_out = None
  /\ path = ""
  /\ fix_out = None
  /\ cli \in CliCommands
  /\ prev = None
  /\ behav = <<>>
  /\ fs = NoFiles

\* what changes when only the command moves on
CliStep(c) ==
  /\ cli' = c
  /\ UNCHANGED <<checks, pc, nscans, categories, context, i, results, pending,
                 calls, ret, error, score_out, checks_arg, path, fix_out,
                 prev, behav, fs>>

\* cli.py lines 146-160, scan command: result = audit.scan(path,
\* categories=cat_list[, live_mode=True]) is entered
CliScanCall ==
  /\ cli.cmd = "scan"
  /\ cli.pos = "start"
  /\ pc = "idle"
  /\ ~CallRaisesTypeError(ScanCallKeywords(cli.cry))
  /\ ScanBegin \/ ScanBeginRaises
  /\ path' = cli.path
  /\ categories' = ParseCategories(cli.cat_opt)

\* cli.py lines 146-160, scan command: the audit.scan call is rejected for
\* its keywords and the TypeError ends the command
CliScanCallRejected ==
  /\ cli.cmd = "scan"
  /\ cli.pos = "start"
  /\ pc = "idle"
  /\ CallRaisesTypeError(ScanCallKeywords(cli.cry))
  /\ CliStep([cli EXCEPT !.pos = "crashed", !.exc = "TypeError"])

\* cli.py lines 232-233, fix command: result = audit.scan(path) is entered
CliFixScanCall ==
  /\ cli.cmd = "fix"
  /\ cli.pos = "start"
  /\ pc = "idle"
  /\ ScanBegin \/ ScanBeginRaises
  /\ path' = cli.path
  /\ categories' = None

\* no command catches the error of a scan that raised
CliScanRaised ==
  /\ cli.cmd \in {"scan", "fix"}
  /\ cli.pos = "start"
  /\ pc = "raised"
  /\ CliStep([cli EXCEPT !.pos = "crashed", !.exc = error])

\* cli.py lines 162-167, scan command: the report is printed as JSON, or
\* _display_results(result, quiet, verbose=cry)
CliDisplay ==
  /\ cli.cmd = "scan"
  /\ cli.pos = "start"
  /\ pc = "returned"
  /\ CliStep([cli EXCEPT !.pos = "done",
                          !.displayed = Some([result |-> ret[1],
                                              verbose |-> cli.cry,
                                              json |-> cli.machine_output])])

\* cli.py lines 270-295: _apply_fixes(issues) returns nothing; the number of
\* issues it reports as fixed
RECURSIVE FixedUpTo(_, _)
FixedUpTo(issues, n) ==
  IF n = 0 THEN 0
  ELSE FixedUpTo(issues, n - 1)
       + (IF issues[n].fix_action = None \/ issues[n].fix_action[1].command = ""
          THEN 0 ELSE 1)

_apply_fixes(issues) == FixedUpTo(issues, Len(issues))

\* faulty variant of FixDecision: --auto is looked at before the preview
\* options
FixDecisionAutoFirst(nfixable, auto, wet_wipe, dry_run) ==
  IF nfixable = 0 THEN "nothing"
  ELSE IF auto THEN "apply"
  ELSE IF wet_wipe \/ dry_run THEN "preview"
  ELSE "confirm"

\* cli.py lines 217, 238-267: what fix does once it has the fixable issues
FixDecision(nfixable, auto, wet_wipe, dry_run) ==
  IF nfixable = 0 THEN "nothing"
  ELSE IF wet_wipe \/ dry_run THEN "preview"
  ELSE IF auto THEN "apply"
  ELSE "confirm"

\* cli.py lines 236-264, fix command after the scan returned: get the fixable
\* issues, return if there are none, show them, return in preview mode,
\* apply them with --auto, otherwise ask
CliFixAfterScan ==
  /\ cli.cmd = "fix"
  /\ cli.pos = "start"
  /\ pc = "returned"
  /\ LET fixable == get_fixable_issues(ret[1].results)
         what == FixDecision(Len(fixable), cli.auto, cli.wet_wipe, cli.dry_run)
         got == [cli EXCEPT !.fixable = Some(fixable)]
         seen == [got EXCEPT !.shown = Some(fixable)]
     IN  CliStep(CASE what = "nothing" -> [got EXCEPT !.pos = "done"]
                   [] what = "preview" -> [seen EXCEPT !.pos = "done"]
                   [] what = "apply" ->
                        [seen EXCEPT !.pos = "done", !.applied = Some(fixable),
                                     !.fixed = _apply_fixes(fixable)]
                   [] what = "confirm" ->
                        [seen EXCEPT !.pos = "confirm", !.prompted = TRUE])

\* cli.py lines 264-267: the answer to typer.confirm("Apply these fixes?")
CliFixConfirm ==
  /\ cli.cmd = "fix"
  /\ cli.pos = "confirm"
  /\ \E yes \in BOOLEAN :
       CliStep(IF yes
               THEN [cli EXCEPT !.pos = "done", !.confirmed = "yes",
                                !.applied = cli.shown,
                                !.fixed = _apply_fixes(cli.shown[1])]
               ELSE [cli EXCEPT !.pos = "done", !.confirmed = "no"])

CliNext ==
  \/ CliScanCall
  \/ CliScanCallRejected
  \/ CliFixScanCall
  \/ CliScanRaised
  \/ CliDisplay
  \/ CliFixAfterScan
  \/ CliFixConfirm
  \/ FilterSkip
  \/ RunCheck
  \/ AppendResult
  \/ AppendSkipped
  \/ RunPropagates
  \/ ScanReturn

CliSpec == CliInit /\ [][CliNext]_vars

\* ================================================================ claims
\* Throughout, the "eligible" checks of a scan are the checks its filter
\* admits (Eligible, line 73); which checks the filter admits for each
\* value of the categories argument is the subject of C3.

\* positions in the registry of the checks the scan's filter admits
EligibleIndices == { k \in 1..Len(checks) : Eligible(checks[k], categories) }

\* the registry restricted to the checks the filter admits, in registry order
RECURSIVE EligibleUpTo(_)
EligibleUpTo(n) ==
  IF n = 0 THEN <<>>
  ELSE IF Eligible(checks[n], categories)
       THEN Append(EligibleUpTo(n - 1), checks[n])
       ELSE EligibleUpTo(n - 1)

\* the call log entries of the checks whose run raised an Exception
RaisedCalls == { j \in 1..Len(calls) : calls[j].outcome.kind = "Exception" }

\* C1: an error raised by a check's run never leaves scan; the returned
\* ScanResult has as many results as there are eligible checks, and every
\* eligible check after a raising one was still run and has its result in
\* the list.
C1_FailureIsolation ==
  /\ pc = "raised" => pending.kind # "Exception"
  /\ pc = "returned" =>
       /\ Len(ret[1].results) = Cardinality(EligibleIndices)
       /\ \A j \in RaisedCalls : \A k \in EligibleIndices :
            k > calls[j].index =>
              \E m \in (j + 1)..Len(calls) :
                 /\ calls[m].index = k
                 /\ m <= Len(ret[1].results)
                 /\ ret[1].results[m].check_id = checks[k].check_id

\* C1 witness: a scan returned although the first of three eligible checks
\* raised; the two later ones ran
C1_Witness ==
  /\ pc = "returned"
  /\ Len(calls) = 3
  /\ calls[1].outcome.kind = "Exception"
  /\ calls[3].outcome.kind = "return"
  /\ Len(ret[1].results) = 3

\* C2: the result recorded for a check whose run raised stands at that
\* check's position, has status SKIPPED and score_impact 0, carries the
\* check's own check_id, name and registered severity, and its message
\* contains the text of the error.
C2_SynthesizedResult ==
  \A j \in RaisedCalls :
    (pc \in {"loop", "returned"} \/ j < Len(calls)) =>
      /\ j <= Len(results)
      /\ LET r == results[j]
             c == checks[calls[j].index]
         IN  /\ r.status = "SKIPPED"
             /\ r.score_impact = 0
             /\ r.check_id = c.check_id
             /\ r.name = c.name
             /\ r.severity = c.severity
             /\ Contains(r.message, calls[j].outcome.text)

\* C2 witness: the returned list holds the result of a check that raised
\* "boom", after the result of a check that returned
C2_Witness ==
  /\ pc = "returned"
  /\ Len(calls) >= 2
  /\ calls[1].outcome.kind = "return"
  /\ calls[2].outcome.kind = "Exception"
  /\ calls[2].outcome.text = ErrBoom
  /\ ret[1].results[2].status = "SKIPPED"

\* the eligibility rule as the specification words it: the allow-list is
\* absent, or the check's category is a member of it
RuleEligible(check, cats) == cats = None \/ InList(check.category, cats[1])

\* C3 (as stated): for every value of the categories argument, a check is
\* run and contributes a result iff the allow-list is absent or the check's
\* category is a member of the allow-list.
C3_EligibilityRule ==
  pc = "returned" =>
    \A k \in 1..Len(checks) :
      (\E j \in 1..Len(calls) :
          /\ calls[j].index = k
          /\ ret[1].results[j].check_id = checks[k].check_id)
      <=> RuleEligible(checks[k], categories)

\* C4: the returned results list holds exactly one entry per eligible
\* check, without duplicates or omissions, in registry order; under the
\* filter ["gdpr"] it holds the results of the gdpr checks only and as many
\* entries as the registry has gdpr checks.
C4_OnePerEligibleInOrder ==
  pc = "returned" =>
    LET rs == ret[1].results
        el == EligibleUpTo(Len(checks))
    IN  /\ Len(rs) = Len(el)
        /\ \A j \in 1..Len(rs) : rs[j].check_id = el[j].check_id
        /\ \A a, b \in 1..Len(rs) : a # b => rs[a].check_id # rs[b].check_id
        /\ categories = Some(<<"gdpr">>) =>
             /\ \A j \in 1..Len(rs) :
                  \E k \in 1..Len(checks) :
                     /\ checks[k].check_id = rs[j].check_id
                     /\ checks[k].category = "gdpr"
             /\ Len(rs) =
                  Cardinality({ k \in 1..Len(checks) : checks[k].category = "gdpr" })

\* C4 witness: a scan filtered by ["gdpr"] over a registry with an ai_act
\* check between two gdpr checks returned the two gdpr results
C4_Witness ==
  /\ pc = "returned"
  /\ categories = Some(<<"gdpr">>)
  /\ Len(checks) = 3
  /\ checks[2].category = "ai_act"
  /\ Len(ret[1].results) = 2
  /\ ret[1].results[1].check_id = checks[1].check_id
  /\ ret[1].results[2].check_id = checks[3].check_id

\* C5: during a scan run is invoked exactly once on each eligible check and
\* never on a filtered-out one, in registry order, and each invocation
\* begins only after the results of all earlier eligible checks have been
\* appended.
C5_SequentialInvocation ==
  /\ \A j \in 1..Len(calls) :
       /\ Eligible(checks[calls[j].index], categories)
       /\ calls[j].check_id = checks[calls[j].index].check_id
       /\ calls[j].nresults = j - 1
       /\ calls[j].nresults =
            Cardinality({ k \in EligibleIndices : k < calls[j].index })
  /\ \A a, b \in 1..Len(calls) : a < b => calls[a].index < calls[b].index
  /\ pc = "returned" =>
       \A k \in EligibleIndices :
         Cardinality({ j \in 1..Len(calls) : calls[j].index = k }) = 1

\* C5 witness: the second invocation of a scan is in progress on the third
\* registry entry, the first result is in the list, and the second entry
\* was filtered out
C5_Witness ==
  /\ pc = "ran"
  /\ Len(calls) = 2
  /\ calls[1].index = 1
  /\ calls[2].index = 3
  /\ Len(results) = 1

\* ------------------------------------------------------- scoring claims
\* the list rs with the score_impact, or the status, of entry k replaced
WithImpact(rs, k, v) == [rs EXCEPT ![k].score_impact = v]
WithStatus(rs, k, st) == [rs EXCEPT ![k].status = st]

\* sum of score_impact over the results of rs that have status st
RECURSIVE SumImpacts(_, _)
SumImpacts(rs, st) ==
  IF rs = <<>> THEN 0
  ELSE (IF Head(rs).status = st THEN Head(rs).score_impact ELSE 0)
       + SumImpacts(Tail(rs), st)

\* the score and the grade a direct _calculate_score call returned
OutScore == score_out[1][1]
OutGrade == score_out[1][2]

Example75 ==
  <<PoolResult("FAILED", 20), PoolResult("WARNING", 10),
    PoolResult("PASSED", 50), PoolResult("SKIPPED", 999)>>

\* C6: scoring starts from 100, subtracts the full score_impact of every
\* FAILED result and half the score_impact of every WARNING result, and
\* nothing for PASSED and SKIPPED results whatever their score_impact:
\* [FAILED(20), WARNING(10), PASSED(50), SKIPPED(999)] scores 75 with grade
\* C, [FAILED(150)] scores 0 with grade F, and changing the score_impact of
\* a PASSED or SKIPPED result never changes (score, grade).
C6_ScoringRule ==
  pc = "score_done" =>
    /\ results = Example75 => score_out = Some(<<75, "C">>)
    /\ results = <<PoolResult("FAILED", 150)>> => score_out = Some(<<0, "F">>)
    /\ \A k \in 1..Len(results) :
         results[k].status \in {"PASSED", "SKIPPED"} =>
           \A v \in ScoreImpacts :
             _calculate_score(WithImpact(results, k, v)) = score_out[1]
    /\ LET F == SumImpacts(results, "FAILED")
           W == SumImpacts(results, "WARNING")
       IN  (W % 2 = 0 /\ F + W \div 2 <= 100) => OutScore = 100 - F - W \div 2

\* C6 witness: the four-result example has been scored
C6_Witness == pc = "score_done" /\ results = Example75

\* the only result of rs that is not PASSED is one WARNING of score_impact 5
OnlyOneWarning5(rs) ==
  \E k \in 1..Len(rs) :
    /\ rs[k].status = "WARNING"
    /\ rs[k].score_impact = 5
    /\ \A j \in 1..Len(rs) : j # k => rs[j].status = "PASSED"

\* C7 (as stated): a WARNING with score_impact 5 deducts 2 points, so a list
\* whose only non-passing result is one WARNING with score_impact 5 scores
\* 98.
C7_Warning5Scores98 ==
  (pc = "score_done" /\ OnlyOneWarning5(results)) => OutScore = 98

\* C7 (amended): the fraction is dropped from the final score, not from the
\* deduction: a WARNING with score_impact 5 deducts 2.5 points, so a list
\* whose only non-passing result is one WARNING with score_impact 5 scores
\* int(97.5) = 97 (grade A).
C7_Warning5Scores97 ==
  (pc = "score_done" /\ OnlyOneWarning5(results)) =>
     score_out = Some(<<97, "A">>)

\* C7 witness: a PASSED result and one WARNING of score_impact 5 were scored
C7_Witness ==
  /\ pc = "score_done"
  /\ results = <<PoolResult("PASSED", 50), PoolResult("WARNING", 5)>>

\* C8: for result lists with non-negative score_impact values the score is
\* an integer in [0,100], and moving one result from PASSED to WARNING or
\* from WARNING to FAILED, its score_impact fixed, never increases the
\* score.
C8_RangeAndMonotone ==
  (pc = "score_done" /\ \A k \in 1..Len(results) : results[k].score_impact >= 0) =>
    /\ OutScore \in 0..100
    /\ \A k \in 1..Len(results) :
         /\ results[k].status = "PASSED" =>
              _calculate_score(WithStatus(results, k, "WARNING"))[1] <= OutScore
         /\ results[k].status = "WARNING" =>
              _calculate_score(WithStatus(results, k, "FAILED"))[1] <= OutScore

\* C8 witness: a scored list that clamps at 0 and holds a WARNING and a
\* PASSED result
C8_Witness ==
  /\ pc = "score_done"
  /\ OutScore = 0
  /\ \E k \in 1..Len(results) : results[k].status = "WARNING"
  /\ \E k \in 1..Len(results) : results[k].status = "PASSED"

Grades == {"A", "B", "C", "D", "F"}

\* C9: the grade depends on the clamped integer score only, with inclusive
\* lower bounds: >= 90 A, 80..89 B, 70..79 C, 60..69 D, below 60 F; every
\* score in 0..100 maps to exactly one of the five letters.
C9_GradeThresholds ==
  /\ pc = "score_done" =>
       /\ OutGrade = "A" <=> OutScore >= 90
       /\ OutGrade = "B" <=> OutScore \in 80..89
       /\ OutGrade = "C" <=> OutScore \in 70..79
       /\ OutGrade = "D" <=> OutScore \in 60..69
       /\ OutGrade = "F" <=> OutScore < 60
  /\ \A sc \in 0..100 :
       /\ Cardinality({ g \in Grades : GradeOf(sc) = g }) = 1
       /\ GradeOf(sc) = "A" <=> sc \in 90..100
       /\ GradeOf(sc) = "B" <=> sc \in 80..89
       /\ GradeOf(sc) = "C" <=> sc \in 70..79
       /\ GradeOf(sc) = "D" <=> sc \in 60..69
       /\ GradeOf(sc) = "F" <=> sc \in 0..59

\* C9 witness: a list scored exactly 60, the lowest D
C9_Witness == pc = "score_done" /\ score_out = Some(<<60, "D">>)

\* the number of entries of rs with status st
NumWithStatus(rs, st) == Cardinality({ k \in 1..Len(rs) : rs[k].status = st })

\* C10: in every returned ScanResult passed, warnings, failed and skipped
\* are the numbers of results with that status, and they add up to
\* len(results).
C10_CountsMatchResults ==
  pc = "returned" =>
    LET r == ret[1]
    IN  /\ r.passed = NumWithStatus(r.results, "PASSED")
        /\ r.warnings = NumWithStatus(r.results, "WARNING")
        /\ r.failed = NumWithStatus(r.results, "FAILED")
        /\ r.skipped = NumWithStatus(r.results, "SKIPPED")
        /\ r.passed + r.warnings + r.failed + r.skipped = Len(r.results)

\* C10 witness: a returned ScanResult with a warning, a failure and a
\* skipped check
C10_Witness ==
  /\ pc = "returned"
  /\ ret[1].warnings = 1
  /\ ret[1].failed = 1
  /\ ret[1].skipped = 1
  /\ ret[1].passed = 0

\* ------------------------------------------------- claims C11 to C20
\* positions of rs whose result has a fix_action with a non-empty command and
\* a status other than PASSED
FixablePositions(rs) ==
  { k \in 1..Len(rs) :
      /\ rs[k].fix_action # None
      /\ rs[k].fix_action[1].command # ""
      /\ rs[k].status # "PASSED" }

\* the j-th smallest element of the set of positions P
NthOf(P, j) == CHOOSE k \in P : Cardinality({ m \in P : m < k }) = j - 1

C11_ReturnedList ==
  pc = "fix_done" =>
    LET out == fix_out[1]
        P == FixablePositions(results)
    IN  /\ Len(out) = Cardinality(P)
        /\ \A j \in 1..Len(out) : out[j] = results[NthOf(P, j)]
        /\ \A j \in 1..Len(out) : out[j].status # "PASSED"
        /\ \A k \in 1..Len(results) :
             (results[k].fix_action = Some(FixCmd)
                /\ results[k].status \in {"WARNING", "FAILED", "SKIPPED"})
             => \E j \in 1..Len(out) : out[j] = results[k]

\* C11: get_fixable_issues returns exactly the results that have a non-null
\* fix_action with a non-empty command and a status other than PASSED, in
\* input order (PASSED with a fix_action excluded; WARNING, FAILED and
\* SKIPPED with one included), and the input list is not modified.
C11_FixableIssues == []C11_ReturnedList /\ [][results' = results]_vars

\* C11 witness: of [PASSED+fix, SKIPPED+fix, WARNING+empty command] the call
\* returned the SKIPPED result only
C11_Witness ==
  /\ pc = "fix_done"
  /\ results = <<MkResult(CheckG1, "PASSED", CheckG1.severity, MsgOk, Some(FixCmd), 10),
                 MkResult(CheckG1, "SKIPPED", CheckG1.severity, MsgOk, Some(FixCmd), 10),
                 MkResult(CheckG1, "WARNING", CheckG1.severity, MsgOk, Some(EmptyCmd), 10)>>
  /\ Len(fix_out[1]) = 1
  /\ fix_out[1][1].status = "SKIPPED"

\* C12 (as stated): the companion-capability probe never raises: however
\* resolving the capability fails, the probe returns false and the scan
\* proceeds (with tibet_available false); no scan ends with an error of the
\* probe.
C12_ProbeNeverRaises == ~(pc = "raised" /\ error = "probe")

\* C13: if resolving the scan path fails, scan fails as a whole: the error
\* reaches the caller, no check's run is invoked and no ScanResult is
\* returned; and a returned ScanResult is never missing an eligible check.
C13_PathFailureIsFatal ==
  /\ (nscans > 0 /\ path = BadPath) =>
       /\ pc = "raised"
       /\ error = "path"
       /\ calls = <<>>
       /\ results = <<>>
       /\ ret = None
  /\ pc = "returned" =>
       \A k \in EligibleIndices :
         \E j \in 1..Len(ret[1].results) :
           ret[1].results[j].check_id = checks[k].check_id

\* C13 witness: the second scan of an engine was given a path that does not
\* resolve and ended with the error
C13_Witness ==
  /\ nscans = 2
  /\ path = BadPath
  /\ pc = "raised"

\* C14: every result of a returned ScanResult carries the id of exactly one
\* check that was eligible under the scan's filter; no result carries the id
\* of a filtered-out check, and no id appears on two results of the scan.
C14_ResultIdsAreEligibleChecks ==
  pc = "returned" =>
    LET rs == ret[1].results
    IN  /\ \A j \in 1..Len(rs) :
             /\ Cardinality({ k \in EligibleIndices :
                                checks[k].check_id = rs[j].check_id }) = 1
             /\ \A k \in 1..Len(checks) :
                  (/\ categories # None
                   /\ categories[1] # <<>>
                   /\ ~InList(checks[k].category, categories[1]))
                  => checks[k].check_id # rs[j].check_id
        /\ \A a, b \in 1..Len(rs) : a < b => rs[a].check_id # rs[b].check_id

\* C14 witness: a scan filtered by ["ai_act"] over a registry of three checks
\* returned the one ai_act result, synthesized after its run raised
C14_Witness ==
  /\ pc = "returned"
  /\ categories = Some(<<"ai_act">>)
  /\ Len(checks) = 3
  /\ Len(ret[1].results) = 1
  /\ ret[1].results[1].check_id = CheckA1.check_id
  /\ calls[1].outcome.kind = "Exception"

\* C15 (as stated): an engine constructed with an explicit list of checks
\* scans exactly the checks of that list, whatever its length; the default
\* registry is used only when no list is supplied.
C15_ExplicitListIsRegistry ==
  /\ checks_arg # None => checks = checks_arg[1]
  /\ checks_arg = None => checks = ALL_CHECKS
  /\ (pc = "returned" /\ categories = None /\ checks_arg # None) =>
       /\ Len(ret[1].results) = Len(checks_arg[1])
       /\ \A j \in 1..Len(checks_arg[1]) :
            ret[1].results[j].check_id = checks_arg[1][j].check_id

\* C17: a scan leaves the registry unchanged (same checks, same order) and
\* keeps no other state: the results of a scan hold no result of an earlier
\* scan of the engine (each is the outcome of an invocation of this scan),
\* and the context is built once, before the first check runs, so that every
\* check of the scan receives the same resolved path and tibet_available.
C17_NoStateAcrossScans ==
  /\ checks = InitChecks(checks_arg)
  /\ Len(results) <= Len(calls)
  /\ \A j \in 1..Len(results) :
       /\ results[j].check_id = calls[j].check_id
       /\ calls[j].outcome.kind = "return" => results[j] = calls[j].outcome.result
       /\ calls[j].outcome.kind # "return" => results[j].score_impact = 0
  /\ \A j \in 1..Len(calls) :
       /\ calls[j].context = context
       /\ calls[j].context.scan_path = Resolve(path)
  /\ pc = "returned" => ret[1].results = results

\* C17 witness: the second scan of an engine returned two results
C17_Witness ==
  /\ nscans = 2
  /\ pc = "returned"
  /\ Len(calls) = 2
  /\ Len(ret[1].results) = 2

\* the list rs with the severity of entry k replaced
WithSeverity(rs, k, sev) == [rs EXCEPT ![k].severity = sev]

\* C18: in every returned ScanResult score and grade are the values the
\* scoring algorithm gives for that same results list (100 minus the FAILED
\* impacts minus half the WARNING impacts, floored at 0 and truncated, and
\* the letter of that score), and severity plays no part: a list differing
\* only in a severity gets the same (score, grade).
C18_ScoreOfReturnedResults ==
  pc = "returned" =>
    LET r == ret[1]
        d2 == 2 * SumImpacts(r.results, "FAILED") + SumImpacts(r.results, "WARNING")
    IN  /\ r.score = (IF d2 >= 200 THEN 0 ELSE (200 - d2) \div 2)
        /\ r.grade = (CASE r.score >= 90 -> "A"
                        [] r.score \in 80..89 -> "B"
                        [] r.score \in 70..79 -> "C"
                        [] r.score \in 60..69 -> "D"
                        [] OTHER -> "F")
        /\ \A k \in 1..Len(r.results) : \A sev \in Severity :
             _calculate_score(WithSeverity(r.results, k, sev)) = <<r.score, r.grade>>

\* C18 witness: a returned scan with a critical FAILED result and a low
\* WARNING result, scored 100 - 20 - 2.5 -> 77, grade C
C18_Witness ==
  /\ pc = "returned"
  /\ \E k \in 1..Len(ret[1].results) :
       ret[1].results[k].status = "FAILED" /\ ret[1].results[k].severity = "critical"
  /\ \E k \in 1..Len(ret[1].results) :
       ret[1].results[k].status = "WARNING" /\ ret[1].results[k].severity = "low"
  /\ ret[1].score = 77
  /\ ret[1].grade = "C"

\* C16: scan is deterministic: a scan repeated on the same engine with the
\* same path, category filter, probe outcome and check behaviour ends the
\* same way and returns the same ScanResult (results sequence, counts, score
\* and grade; timestamp and duration are not part of the comparison).  That
\* scoring gives the same (score, grade) for the same list is part of it:
\* the score and grade of both ScanResults are computed from equal lists.
C16_RescanIsIdentical ==
  (/\ pc \in {"returned", "raised"}
   /\ prev # None
   /\ prev[1].categories = categories)
  => /\ pc = prev[1].pc
     /\ error = prev[1].error
     /\ ret = prev[1].ret
     /\ pc = "returned" =>
          <<ret[1].score, ret[1].grade>> = _calculate_score(prev[1].ret[1].results)

\* C16 witness: a second scan under the same filter returned a ScanResult
\* with a synthesized result and a score below 100
C16_Witness ==
  /\ pc = "returned"
  /\ prev # None
  /\ prev[1].categories = categories
  /\ prev[1].pc = "returned"
  /\ ret[1].skipped = 1
  /\ ret[1].score = 80


\* the results of the scan the command ran that are at the fixable positions,
\* in their order
FixableOfScan ==
  LET rs == ret[1].results
      pos == FixablePositions(rs)
  IN  [k \in 1..Cardinality(pos) |-> rs[NthOf(pos, k)]]

\* C19: the fix command applies nothing with --wet-wipe or --dry-run, --auto
\* given or not, and does not ask either; with no fixable issue it returns
\* without showing, asking or applying; fixes are applied only with --auto or
\* after the answer yes; what is shown and what is applied are the fixable
\* results of the scan of the given path with the whole registry and no
\* category filter, in their order.
C19_FixAppliesOnlyWhenAllowed ==
  cli.cmd = "fix" =>
    /\ (cli.wet_wipe \/ cli.dry_run) => (cli.applied = None /\ ~cli.prompted)
    /\ cli.fixable = Some(<<>>) =>
          (cli.shown = None /\ ~cli.prompted /\ cli.applied = None)
    /\ cli.applied # None => (cli.auto \/ cli.confirmed = "yes")
    /\ cli.confirmed # "none" => (cli.prompted /\ ~cli.auto)
    /\ cli.shown # None =>
          /\ pc = "returned"
          /\ path = cli.path /\ categories = None /\ checks = ALL_CHECKS
          /\ cli.shown[1] = FixableOfScan
          /\ cli.shown[1] # <<>>
    /\ cli.applied # None => cli.applied = cli.shown
    /\ (cli.pos = "done" /\ cli.shown # None /\ cli.applied = None) =>
          (cli.wet_wipe \/ cli.dry_run \/ cli.confirmed = "no")

\* a preview with --auto that showed two issues and ended having applied
\* nothing
C19_Witness ==
  /\ cli.cmd = "fix" /\ cli.pos = "done"
  /\ cli.auto /\ cli.wet_wipe
  /\ cli.shown # None /\ Len(cli.shown[1]) = 2
  /\ Len(ret[1].results) = 3
  /\ cli.applied = None

\* C20: a scan command with --cry ends as the same command without --cry
\* does: it fails only if the engine scan of the given path and categories
\* failed, and otherwise shows the ScanResult of that scan, verbosely.
C20_CryModeScans ==
  (cli.cmd = "scan" /\ cli.cry) =>
    /\ cli.pos = "crashed" => (pc = "raised" /\ cli.exc = error)
    /\ pc # "idle" =>
          (path = cli.path /\ categories = ParseCategories(cli.cat_opt))
    /\ cli.pos = "done" =>
          /\ pc = "returned"
          /\ cli.displayed = Some([result |-> ret[1], verbose |-> TRUE,
                                   json |-> cli.machine_output])

\* C21: the score is max(0, trunc(100 - F - W/2)), F the sum of score_impact
\* over the FAILED results and W the sum over the WARNING results; the
\* halves add up exactly and the fraction is dropped once, from the final
\* value: two WARNING results of score_impact 5 and nothing else failing
\* score 95, one scores 97.
C21_TruncatedOnce ==
  pc = "score_done" =>
    LET F == SumImpacts(results, "FAILED")
        W == SumImpacts(results, "WARNING")
        left2 == 2 * 100 - 2 * F - W
        warn5 == { k \in 1..Len(results) : results[k] = PoolResult("WARNING", 5) }
        quiet == { k \in 1..Len(results) : results[k].status \in {"PASSED", "SKIPPED"} }
    IN  /\ OutScore = (IF left2 <= 0 THEN 0 ELSE left2 \div 2)
        /\ (Cardinality(warn5) = 2 /\ Cardinality(quiet) = Len(results) - 2)
              => OutScore = 95
        /\ (Cardinality(warn5) = 1 /\ Cardinality(quiet) = Len(results) - 1)
              => OutScore = 97

\* C21 witness: two WARNING results of score_impact 5 around a SKIPPED one
\* were scored 95
C21_Witness ==
  /\ pc = "score_done"
  /\ results = <<PoolResult("WARNING", 5), PoolResult("SKIPPED", 999),
                 PoolResult("WARNING", 5)>>
  /\ OutScore = 95

\* the scan ran at least one check and every check it ran raised an
\* Exception
AllRunsRaised ==
  /\ calls # <<>>
  /\ \A j \in 1..Len(calls) : calls[j].outcome.kind = "Exception"

\* C22: a returned scan none of whose results is FAILED or WARNING has score
\* 100 and grade A.  When the filter admits no check the results are empty
\* and passed, warnings, failed and skipped are 0; when every admitted check
\* raised, every result is SKIPPED, skipped is the number of admitted checks
\* and fixable_count is 0; both score 100 with grade A.
C22_NothingFoundScores100 ==
  pc = "returned" =>
    LET r == ret[1]
        clean == \A k \in 1..Len(r.results) :
                   r.results[k].status \notin {"FAILED", "WARNING"}
    IN  /\ clean => (r.score = 100 /\ r.grade = "A")
        /\ EligibleIndices = {} =>
              /\ r.results = <<>>
              /\ r.passed = 0 /\ r.warnings = 0 /\ r.failed = 0 /\ r.skipped = 0
              /\ clean
        /\ AllRunsRaised =>
              /\ \A k \in 1..Len(r.results) : r.results[k].status = "SKIPPED"
              /\ r.skipped = Cardinality(EligibleIndices)
              /\ r.skipped = Len(r.results)
              /\ fixable_count(r) = 0
              /\ clean

\* C22 witness: a scan of three checks whose filter left one out and whose
\* two admitted checks both raised
C22_Witness ==
  /\ pc = "returned"
  /\ Len(checks) = 3
  /\ AllRunsRaised
  /\ ret[1].skipped = 2
  /\ ret[1].score = 100

\* positions in the registry of the checks a filter cats admits
AdmittedBy(cats) == { k \in 1..Len(checks) : Eligible(checks[k], cats) }

\* the entries of the list u at the positions P, in their order
EntriesAt(u, P) == [j \in 1..Cardinality(P) |-> u[NthOf(P, j)]]

\* f is the ScanResult of a scan filtered by cats, u that of the unfiltered
\* scan: the results of f are those of u for the admitted checks, and f
\* scores at least as high
FilteredAgainstUnfiltered(f, cats, u) ==
  /\ Len(u.results) = Len(checks)
  /\ f.results = EntriesAt(u.results, AdmittedBy(cats))
  /\ f.score >= u.score

\* C23: with checks that behave the same on every run and score_impact
\* values that are not negative, the results of a scan with a category
\* filter are the unfiltered scan's results for the admitted checks, each
\* equal to the one of the unfiltered scan and in the same order, and the
\* filtered scan's score is not below the unfiltered scan's; whichever of
\* the two scans ran first.
C23_FilterSelectsSubsequence ==
  (pc = "returned" /\ prev # None /\ prev[1].pc = "returned") =>
    /\ prev[1].categories = None =>
          FilteredAgainstUnfiltered(ret[1], categories, prev[1].ret[1])
    /\ categories = None =>
          FilteredAgainstUnfiltered(prev[1].ret[1], prev[1].categories, ret[1])

\* C23 witness: after an unfiltered scan of a registry whose second check is
\* the ai_act one, a scan filtered on gdpr returned the first and third
\* result and a higher score
C23_Witness ==
  /\ pc = "returned"
  /\ prev # None
  /\ prev[1].pc = "returned"
  /\ prev[1].categories = None
  /\ categories = Some(<<"gdpr">>)
  /\ Len(checks) = 3
  /\ checks[2].category = "ai_act"
  /\ Len(ret[1].results) = 2
  /\ ret[1].results[2] = prev[1].ret[1].results[3]
  /\ ret[1].results[1].status = "WARNING"
  /\ ret[1].score > prev[1].ret[1].score

\* C24: whatever the scanned tree holds and whether tibet is available or
\* not, a scan that runs the five penguin checks only returns five results
\* with the ids PENG-001 to PENG-005 in that order, none of them FAILED,
\* every PASSED one with score_impact 0, a score of at least 85 with grade A
\* or B, and at most one fixable issue, the PENG-003 one, and that only
\* when tibet is not available.
C24_PenguinScan ==
  pc = "returned" =>
    LET r == ret[1]
        rs == r.results
    IN  /\ Len(rs) = 5
        /\ [k \in 1..5 |-> rs[k].check_id]
             = <<"PENG-001", "PENG-002", "PENG-003", "PENG-004", "PENG-005">>
        /\ \A k \in 1..5 : rs[k].status # "FAILED"
        /\ \A k \in 1..5 : rs[k].status = "PASSED" => rs[k].score_impact = 0
        /\ r.score >= 85
        /\ r.grade \in {"A", "B"}
        /\ FixablePositions(rs) \subseteq {3}
        /\ fixable_count(r) = Cardinality(FixablePositions(rs))
        /\ FixablePositions(rs) # {} => ~context.tibet_available

\* C24 witness: a filtered scan of the whole registry over a tree with
\* nothing the checks look for, tibet not available: four warnings, score
\* 85, grade B, PENG-003 fixable
C24_Witness ==
  /\ pc = "returned"
  /\ Len(checks) = 8
  /\ ~context.tibet_available
  /\ ret[1].warnings = 4
  /\ ret[1].score = 85
  /\ ret[1].grade = "B"
  /\ FixablePositions(ret[1].results) = {3}
====
